---- MODULE Spec2Model ----
(***************************************************************************)
(* Array-backed Merkle tree with compact multi-leaf proofs                 *)
(* (darwinia-network/tiny-sparse-merkle-tree, src/src/lib.rs).             *)
(*                                                                         *)
(* A Rust Vec is modelled as a TLA+ sequence; the Rust element v[i]        *)
(* (0-based) is Get(v, i) == v[i + 1].  Digests are u32 values, as in the  *)
(* test hashers (hash = identity).  The tree is built once (Init) and is   *)
(* read-only afterwards; the actions are proof_of, Proof::sort, a caller   *)
(* that exchanges two claimed digests, and verify.                         *)
(***************************************************************************)
EXTENDS Integers, Sequences, FiniteSets, TLC

\* ---------------------------------------------------------------- bounds
\* longest leaf list handed to new()
MaxLeaves == 5
\* leaf values range over 0..MaxLeaf
MaxLeaf == 1
\* longest leaf list with arbitrary values
MaxArb == 3
\* longest arbitrary (unsorted, possibly repeating) index list
MaxReq == 2
\* a Proof built by hand: longest leaves_with_index, longest proof list and
\* largest node index in it (its digests range over 0..MaxLeaf)
MaxForgedLeaves == 2
MaxForgedProof == 1
MaxForgedIndex == 3
\* longest proof list written from scratch by the holder of a Proof
MaxTamperLen == 1

VARIABLES
    scheme,                  \* the Hasher type parameter Hs: "add" or "order"
    leaves,                  \* the slice handed to new()
    nodes,                   \* SparseMerkleTree.nodes
    non_empty_leaves_count,  \* SparseMerkleTree.non_empty_leaves_count
    indices,                 \* argument of the last proof_of call
    proof,                   \* the Proof value held by the caller
    emitted,                 \* node index behind each entry of proof.proof
    prep,                    \* what the caller did to the Proof so far
    panicked,                \* an index was out of bounds
    phase,                   \* "built" | "proved" | "verified", and for a
                             \* verify followed step by step "forged" |
                             \* "verifying" | "panicked"
    result,                  \* value returned by the last verify
    vst                      \* the loop state of a verify in progress

vars == <<scheme, leaves, nodes, non_empty_leaves_count, indices, proof,
          emitted, prep, panicked, phase, result, vst>>

\* ------------------------------------------------------------ Vec helpers
Get(v, i) == v[i + 1]

Set(v, i, x) == [v EXCEPT ![i + 1] = x]

InBounds(v, i) == i >= 0 /\ i < Len(v)

Repeat(x, n) == [t \in 1..n |-> x]

\* ---------------------------------------------------------------- Hasher
\* H::default() for u32
Default == 0

Schemes == {"add", "order"}

\* H::default() of the digest type of scheme Hs.  Under "pair" (Keccak256
\* taken as collision-free, digests kept as terms) the all-zero digest is
\* the empty term, which no hash and no merge produces.
default_of(Hs) == IF Hs = "pair" THEN <<>> ELSE Default

\* Hasher::hash of the test hashers: *data; under "pair" the term <<data>>
hash(Hs, data) == IF Hs = "pair" THEN <<data>> ELSE data

\* Hasher::merge: `*l + *r` (lib.rs tests, DebugView) and `2 * *l + *r`
\* (CheckMergeOrder).  The digests are u32; with the leaf values and tree
\* heights of this model every sum stays below 2^10, so the u32 arithmetic
\* never wraps and is plain integer arithmetic here.
\* Under "pair", Keccak256::merge = hash(l || r) taken as collision-free:
\* the ordered pair of its operands.
merge(Hs, l, r) ==
    IF Hs = "add" THEN l + r
    ELSE IF Hs = "pair" THEN <<l, r>>
    ELSE 2 * l + r

\* ------------------------------------------------------------------ tree
RECURSIVE NextPow2From(_, _)
\* smallest power of two p' >= x reachable by doubling p
NextPow2From(p, x) == IF p >= x THEN p ELSE NextPow2From(2 * p, x)

\* a variant that maps 0 to 0 instead of 1
non_empty_to_half_leaves_count_zero(n) ==
    IF n = 0 THEN 0 ELSE NextPow2From(1, n)

\* u32::next_power_of_two: smallest power of two >= n, and 1 for n = 0
non_empty_to_half_leaves_count(n) == NextPow2From(1, n)

\* the build pass with the operands exchanged
build_step_swapped(Hs, ns, i) ==
    Set(ns, i, merge(Hs, Get(ns, i * 2 + 1), Get(ns, i * 2)))

\* one iteration of the build closure: nodes[i] = merge(nodes[2i], nodes[2i+1])
build_step(Hs, ns, i) ==
    Set(ns, i, merge(Hs, Get(ns, i * 2), Get(ns, i * 2 + 1)))

RECURSIVE build(_, _, _)
\* (1..half_leaves_count).rev().for_each(...), entered with i = half - 1
build(Hs, ns, i) ==
    IF i < 1 THEN ns ELSE build(Hs, build_step(Hs, ns, i), i - 1)

\* SparseMerkleTree::new: the nodes vector
new(Hs, ls) ==
    LET n    == Len(ls)
        half == non_empty_to_half_leaves_count(n)
        filled == Repeat(default_of(Hs), half)
                  \o [t \in 1..n |-> hash(Hs, ls[t])]
                  \o Repeat(default_of(Hs), half - n)
    IN  build(Hs, filled, half - 1)

leaves_count(ns) == Len(ns)

half_leaves_count(ns) == leaves_count(ns) \div 2

\* SparseMerkleTree::root
root(ns) == IF leaves_count(ns) = 0 THEN Default ELSE Get(ns, 1)

\* the index read by root() lies inside the vector
root_in_bounds(ns) == leaves_count(ns) = 0 \/ InBounds(ns, 1)

\* ----------------------------------------------------------------- Proof
\* #[derive(Default)] struct Proof
DefaultProof ==
    [half_leaves_count |-> 0, root |-> Default,
     leaves_with_index |-> <<>>, proof |-> <<>>]

\* indices.iter().any(|i| *i >= self.non_empty_leaves_count())
index_out_of_bounds(n, idx) == \E p \in 1..Len(idx) : idx[p] >= n

RECURSIVE mark_known(_, _, _, _)
\* indices.iter().for_each(|i| known[half + *i] = true), from position p
mark_known(known, half, idx, p) ==
    IF p > Len(idx) THEN known
    ELSE mark_known(Set(known, half + idx[p], TRUE), half, idx, p + 1)

\* the sibling walk with `known[i] = l && r`
proof_step_and(ns, st, i) ==
    LET j == i * 2
        k == j + 1
        l == Get(st.known, j)
        r == Get(st.known, k)
        e1 == IF l /\ ~r THEN Append(st.emitted, k) ELSE st.emitted
        e2 == IF ~l /\ r THEN Append(e1, j) ELSE e1
    IN  [known |-> Set(st.known, i, l /\ r), emitted |-> e2]

\* the sibling walk that pushes the right sibling whenever the left is known
proof_step_eager(ns, st, i) ==
    LET j == i * 2
        k == j + 1
        l == Get(st.known, j)
        r == Get(st.known, k)
        e1 == IF l THEN Append(st.emitted, k) ELSE st.emitted
        e2 == IF ~l /\ r THEN Append(e1, j) ELSE e1
    IN  [known |-> Set(st.known, i, l \/ r), emitted |-> e2]

\* one iteration of the closure of proof_of; st.emitted lists the node
\* indices whose digests were pushed onto `proof`
proof_step(ns, st, i) ==
    LET j == i * 2
        k == j + 1
        l == Get(st.known, j)
        r == Get(st.known, k)
        e1 == IF l /\ ~r THEN Append(st.emitted, k) ELSE st.emitted
        e2 == IF ~l /\ r THEN Append(e1, j) ELSE e1
    IN  [known |-> Set(st.known, i, l \/ r), emitted |-> e2]

RECURSIVE proof_loop(_, _, _)
\* (1..half_leaves_count).rev().for_each(...), entered with i = half - 1
proof_loop(ns, st, i) ==
    IF i < 1 THEN st ELSE proof_loop(ns, proof_step(ns, st, i), i - 1)

\* node indices behind the proof list of proof_of(indices), in push order
proof_emitted(ns, n, idx) ==
    IF index_out_of_bounds(n, idx) THEN <<>>
    ELSE LET half   == half_leaves_count(ns)
             known0 == mark_known(Repeat(FALSE, leaves_count(ns)), half, idx, 1)
         IN  proof_loop(ns, [known |-> known0, emitted |-> <<>>], half - 1).emitted

\* the early return that keeps the tree's root in the returned Proof
out_of_bounds_proof_with_root(ns) ==
    [DefaultProof EXCEPT !.root = root(ns)]

\* `return Default::default()` of proof_of
out_of_bounds_proof(ns) == DefaultProof

\* SparseMerkleTree::proof_of
proof_of(ns, n, idx) ==
    IF index_out_of_bounds(n, idx) THEN out_of_bounds_proof(ns)
    ELSE LET half == half_leaves_count(ns)
             em   == proof_emitted(ns, n, idx)
         IN  [half_leaves_count |-> half,
              root |-> root(ns),
              leaves_with_index |->
                  [p \in 1..Len(idx) |-> <<half + idx[p], Get(ns, half + idx[p])>>],
              proof |-> [p \in 1..Len(em) |-> Get(ns, em[p])]]

\* proof_of indexes `known` or `nodes` outside their length
proof_of_panics(ns, n, idx) ==
    /\ ~index_out_of_bounds(n, idx)
    /\ \/ \E p \in 1..Len(idx) : ~InBounds(ns, half_leaves_count(ns) + idx[p])
       \/ ~root_in_bounds(ns)

RECURSIVE insert_asc(_, _)
\* insertion that orders by index ascending
insert_asc(sorted, x) ==
    IF sorted = <<>> THEN <<x>>
    ELSE IF Head(sorted)[1] <= x[1]
         THEN <<Head(sorted)>> \o insert_asc(Tail(sorted), x)
         ELSE <<x>> \o sorted

RECURSIVE insert_desc(_, _)
\* stable insertion under the comparator |(a, _), (b, _)| b.cmp(a)
insert_desc(sorted, x) ==
    IF sorted = <<>> THEN <<x>>
    ELSE IF Head(sorted)[1] >= x[1]
         THEN <<Head(sorted)>> \o insert_desc(Tail(sorted), x)
         ELSE <<x>> \o sorted

RECURSIVE sort_from(_, _, _)
\* the sort, element by element from position p
sort_from(lwi, p, acc) ==
    IF p > Len(lwi) THEN acc ELSE sort_from(lwi, p + 1, insert_desc(acc, lwi[p]))

RECURSIVE sort_ascending_from(_, _, _)
sort_ascending_from(lwi, p, acc) ==
    IF p > Len(lwi) THEN acc
    ELSE sort_ascending_from(lwi, p + 1, insert_asc(acc, lwi[p]))

\* a sort under the comparator a.cmp(b)
sort_ascending(lwi) == sort_ascending_from(lwi, 1, <<>>)

\* Proof::sort: leaves_with_index.sort_by(|(a, _), (b, _)| b.cmp(a))
sort(lwi) == sort_from(lwi, 1, <<>>)

\* ---------------------------------------------------------------- verify
\* the state of the while loop of verify: the growing vector
\* nodes_with_indices (q), the cursors p_i and n_i, and the return value
VerifyStart(prf) ==
    [q |-> prf.leaves_with_index, p_i |-> 0, n_i |-> 0,
     done |-> FALSE, ret |-> FALSE]

Return(st, b) == [st EXCEPT !.done = TRUE, !.ret = b]

\* the branch taken when the next queue entry is the left sibling (i - 1)
\* of the odd entry just read: the operands as lib.rs:250 passes them
merge_pair(Hs, right, left) == merge(Hs, right, left)

\* a sibling is needed from the proof list and the cursor is at its end,
\* answered with true
out_of_proof_accepts(st) == Return(st, TRUE)

\* `if p_i == proof.len() { return false; }`
out_of_proof(st) == Return(st, FALSE)

\* one iteration of the while loop of verify
verify_step(Hs, prf, st) ==
    LET q   == st.q
        i   == Get(q, st.n_i)[1]
        n_j == st.n_i
        n_i == st.n_i + 1
        d   == Get(q, n_j)[2]
    IN  IF i = 1 THEN Return([st EXCEPT !.n_i = n_i], prf.root = d)
        ELSE IF i % 2 = 0 THEN
            IF st.p_i = Len(prf.proof) THEN out_of_proof([st EXCEPT !.n_i = n_i])
            ELSE [st EXCEPT
                    !.q = Append(q, <<i \div 2, merge(Hs, d, Get(prf.proof, st.p_i))>>),
                    !.p_i = st.p_i + 1,
                    !.n_i = n_i]
        ELSE IF n_i # Len(q) /\ Get(q, n_i)[1] = i - 1 THEN
            [st EXCEPT
                !.q = Append(q, <<i \div 2, merge_pair(Hs, d, Get(q, n_i)[2])>>),
                !.n_i = n_i + 1]
        ELSE
            IF st.p_i = Len(prf.proof) THEN out_of_proof([st EXCEPT !.n_i = n_i])
            ELSE [st EXCEPT
                    !.q = Append(q, <<i \div 2, merge(Hs, Get(prf.proof, st.p_i), d)>>),
                    !.p_i = st.p_i + 1,
                    !.n_i = n_i]

RECURSIVE verify_loop(_, _, _)
\* while n_i < nodes_with_indices.len() { ... } false
verify_loop(Hs, prf, st) ==
    IF st.done THEN st
    ELSE IF st.n_i < Len(st.q) THEN verify_loop(Hs, prf, verify_step(Hs, prf, st))
    ELSE Return(st, FALSE)

\* SparseMerkleTree::verify
verify(Hs, prf) ==
    IF prf.leaves_with_index = <<>> THEN FALSE
    ELSE verify_loop(Hs, prf, VerifyStart(prf)).ret

\* no verify in progress
VerifyIdle ==
    [q |-> <<>>, p_i |-> 0, n_i |-> 0, done |-> FALSE, ret |-> FALSE]

\* ---------------------------------------------------------------- inputs
SeqsUpTo(S, n) == UNION {[1..m -> S] : m \in 0..n}

\* the leaves of the tests' new_with_leaves_count(n): 1, 2, ..., n
Counting(n) == [t \in 1..n |-> t]

LeafLists ==
    {Counting(n) : n \in 0..MaxLeaves} \cup SeqsUpTo(0..MaxLeaf, MaxArb)

RECURSIVE Ascending(_)
\* the members of a set of indices, smallest first (as the tests list them)
Ascending(S) ==
    IF S = {} THEN <<>>
    ELSE LET m == CHOOSE x \in S : \A y \in S : x <= y
         IN  <<m>> \o Ascending(S \ {m})

\* index lists handed to proof_of; index MaxLeaves is out of range for
\* every tree
Requests ==
    {Ascending(S) : S \in SUBSET (0..MaxLeaves)}
        \cup SeqsUpTo(0..MaxLeaves, MaxReq)

\* --------------------------------------------------------- state machine
Init ==
    /\ scheme \in Schemes
    /\ leaves \in LeafLists
    /\ nodes = new(scheme, leaves)
    /\ non_empty_leaves_count = Len(leaves)
    /\ indices = <<>>
    /\ proof = DefaultProof
    /\ emitted = <<>>
    /\ prep = "none"
    /\ panicked = FALSE
    /\ phase = "built"
    /\ result = FALSE
    /\ vst = VerifyIdle

\* let proof = smt.proof_of(indices).  The tree is read-only, so a second
\* call would start from the same tree: one call per run is enough.
ProofOf(idx) ==
    /\ phase = "built"
    /\ indices' = idx
    /\ phase' = "proved"
    /\ prep' = "raw"
    /\ result' = FALSE
    /\ IF proof_of_panics(nodes, non_empty_leaves_count, idx)
       THEN /\ panicked' = TRUE
            /\ UNCHANGED <<proof, emitted>>
       ELSE /\ panicked' = FALSE
            /\ proof' = proof_of(nodes, non_empty_leaves_count, idx)
            /\ emitted' = proof_emitted(nodes, non_empty_leaves_count, idx)
    /\ UNCHANGED <<scheme, leaves, nodes, non_empty_leaves_count, vst>>

\* proof.sort()
Sort ==
    /\ phase = "proved"
    /\ proof' = [proof EXCEPT !.leaves_with_index = sort(@)]
    /\ prep' = IF prep \in {"swapped", "tampered"} THEN prep ELSE "sorted"
    /\ UNCHANGED <<scheme, leaves, nodes, non_empty_leaves_count, indices,
                   emitted, panicked, phase, result, vst>>

\* positions a, b of leaves_with_index hold the left and the right child of
\* one parent
SiblingPositions(lwi, a, b) ==
    /\ lwi[a][1] % 2 = 0
    /\ lwi[b][1] = lwi[a][1] + 1

\* the holder of a sorted Proof presents the left leaf with the right leaf's
\* digest and the right leaf with the left leaf's digest
SwapSiblingDigests(a, b) ==
    /\ phase = "proved"
    /\ prep = "sorted"
    /\ SiblingPositions(proof.leaves_with_index, a, b)
    /\ proof.leaves_with_index[a][2] # proof.leaves_with_index[b][2]
    /\ proof' = [proof EXCEPT
                    !.leaves_with_index[a][2] = proof.leaves_with_index[b][2],
                    !.leaves_with_index[b][2] = proof.leaves_with_index[a][2]]
    /\ prep' = "swapped"
    /\ UNCHANGED <<scheme, leaves, nodes, non_empty_leaves_count, indices,
                   emitted, panicked, phase, result, vst>>

\* SparseMerkleTree::verify(proof)
Verify ==
    /\ phase = "proved"
    /\ phase' = "verified"
    /\ result' = verify(scheme, proof)
    /\ UNCHANGED <<scheme, leaves, nodes, non_empty_leaves_count, indices,
                   proof, emitted, prep, panicked, vst>>

Next ==
    \/ \E idx \in Requests : ProofOf(idx)
    \/ Sort
    \/ \E a, b \in 1..Len(proof.leaves_with_index) : SwapSiblingDigests(a, b)
    \/ Verify

Spec == Init /\ [][Next]_vars

\* ------------------------------------------------------ claim vocabulary
Distinct(s) == \A a, b \in 1..Len(s) : a # b => s[a] # s[b]

InRange(s) == \A a \in 1..Len(s) : s[a] < non_empty_leaves_count

StrictlyAscending(s) == \A a \in 1..Len(s) - 1 : s[a] < s[a + 1]

\* a request the round-trip property speaks of
DistinctInRange == indices # <<>> /\ Distinct(indices) /\ InRange(indices)

\* some pair of requested leaves shares a parent
SiblingsRequested ==
    \E a, b \in 1..Len(indices) : indices[a] % 2 = 0 /\ indices[b] = indices[a] + 1

\* C1: with hash = identity and merge(l, r) = l + r, every proof_of result
\* for a non-empty list of distinct in-range indices verifies after sort().
C1_RoundTripAdditive ==
    (/\ phase = "verified"
     /\ prep = "sorted"
     /\ scheme = "add"
     /\ Len(leaves) >= 1
     /\ DistinctInRange) => result = TRUE

C1_Witness ==
    /\ phase = "verified"
    /\ prep = "sorted"
    /\ scheme = "add"
    /\ leaves = Counting(5)
    /\ indices = <<0, 1, 4>>
    /\ proof.leaves_with_index = <<<<12, 5>>, <<9, 2>>, <<8, 1>>>>
    /\ result = TRUE

\* C2: with merge(l, r) = 2l + r and leaves 1..5, every proof_of result for
\* a non-empty list of distinct in-range indices verifies after sort(),
\* also when both children of one parent are requested.
C2_RoundTripOrderSensitive ==
    (/\ phase = "verified"
     /\ prep = "sorted"
     /\ scheme = "order"
     /\ leaves = Counting(5)
     /\ DistinctInRange) => result = TRUE

\* C3: with merge(l, r) = 2l + r, a sorted proof in which the digests of
\* two sibling leaves (different digests) were exchanged is rejected.
C3_SwappedSiblingsRejected ==
    (/\ phase = "verified"
     /\ prep = "swapped"
     /\ scheme = "order"
     /\ DistinctInRange) => result = FALSE

\* the tree is the one new() built: no operation wrote to it
TreeAsBuilt ==
    /\ nodes = new(scheme, leaves)
    /\ non_empty_leaves_count = Len(leaves)

\* C4: a request holding an index >= non_empty_leaves_count (also on the
\* tree of zero leaves) does not fail and yields the default Proof (no
\* leaves, no proof entries, default root); the tree is unchanged and verify
\* of that Proof is false.
C4_OutOfRangeRequest ==
    (phase # "built" /\ index_out_of_bounds(non_empty_leaves_count, indices)) =>
        /\ ~panicked
        /\ proof = DefaultProof
        /\ emitted = <<>>
        /\ TreeAsBuilt
        /\ (phase = "verified" => result = FALSE)

C4_Witness ==
    /\ phase = "verified"
    /\ leaves = Counting(5)
    /\ indices = <<0, 5>>
    /\ proof = DefaultProof
    /\ result = FALSE

\* smallest power of two >= n, for n >= 1, stated without the doubling loop
PowersOfTwo == {1, 2, 4, 8, 16, 32}

CeilPow2(n) == CHOOSE p \in PowersOfTwo : p >= n /\ \A r \in PowersOfTwo : r >= n => p <= r

\* C5: for n >= 1 leaves and half = smallest power of two >= n, nodes has
\* length 2 * half, nodes[0] is the default digest, nodes[half + t] is
\* hash(leaves[t]) for t < n and the default digest for n <= t < half, every
\* internal node i in 1..half-1 is merge(nodes[2i], nodes[2i+1]) with the
\* left child first, and root() is nodes[1]; for additive merge and leaves
\* 1..5 the array is [0,15,10,5,3,7,5,0,1,2,3,4,5,0,0,0].
C5_TreeLayout ==
    Len(leaves) >= 1 =>
        LET n    == Len(leaves)
            half == CeilPow2(n)
        IN  /\ Len(nodes) = 2 * half
            /\ Get(nodes, 0) = Default
            /\ \A t \in 0..n - 1 : Get(nodes, half + t) = hash(scheme, leaves[t + 1])
            /\ \A t \in n..half - 1 : Get(nodes, half + t) = Default
            /\ \A i \in 1..half - 1 :
                  Get(nodes, i) = merge(scheme, Get(nodes, 2 * i), Get(nodes, 2 * i + 1))
            /\ root(nodes) = Get(nodes, 1)
            /\ (scheme = "add" /\ leaves = Counting(5) =>
                  nodes = <<0, 15, 10, 5, 3, 7, 5, 0, 1, 2, 3, 4, 5, 0, 0, 0>>)

C5_Witness ==
    /\ scheme = "order"
    /\ leaves = Counting(5)
    /\ nodes = <<0, 56, 18, 20, 4, 10, 10, 0, 1, 2, 3, 4, 5, 0, 0, 0>>
    /\ phase = "proved"

\* C6 as stated: zero leaves give half = 0 and an empty nodes array
\* (leaves_count() = 0), non_empty_leaves_count = 0, and root() is the
\* default digest read without an out-of-bounds access.
C6_EmptyTreeHasNoNodes ==
    leaves = <<>> =>
        /\ half_leaves_count(nodes) = 0
        /\ nodes = <<>>
        /\ leaves_count(nodes) = 0
        /\ non_empty_leaves_count = 0
        /\ root(nodes) = Default
        /\ root_in_bounds(nodes)

\* C6 amended: zero leaves give half = 1 and nodes = [default, default]
\* (leaves_count() = 2), non_empty_leaves_count = 0, and root() reads
\* nodes[1], in bounds, which is the default digest.
C6_EmptyTreeHasTwoDefaultNodes ==
    leaves = <<>> =>
        /\ half_leaves_count(nodes) = 1
        /\ nodes = <<Default, Default>>
        /\ leaves_count(nodes) = 2
        /\ non_empty_leaves_count = 0
        /\ root(nodes) = Default
        /\ root_in_bounds(nodes)
        /\ ~panicked
        /\ (phase # "built" /\ indices = <<>> => proof.root = Default)

C6_Witness ==
    /\ leaves = <<>>
    /\ phase = "proved"
    /\ indices = <<>>
    /\ proof = [half_leaves_count |-> 1, root |-> Default,
                leaves_with_index |-> <<>>, proof |-> <<>>]
    /\ ~panicked

RECURSIVE Under(_, _)
\* node x lies in the subtree rooted at node i (x = i included)
Under(i, x) == x = i \/ (x > i /\ Under(i, x \div 2))

\* the known bit of node i in closed form: i is a requested leaf or an
\* ancestor of one
RefKnown(i) ==
    \E p \in 1..Len(indices) : Under(i, half_leaves_count(nodes) + indices[p])

RECURSIVE RefEmitted(_)
\* the siblings the reference visit appends at internal nodes i, i-1, ..., 1
RefEmitted(i) ==
    IF i < 1 THEN <<>>
    ELSE LET here == IF RefKnown(2 * i) /\ ~RefKnown(2 * i + 1) THEN <<2 * i + 1>>
                     ELSE IF ~RefKnown(2 * i) /\ RefKnown(2 * i + 1) THEN <<2 * i>>
                     ELSE <<>>
         IN  here \o RefEmitted(i - 1)

\* C7: for in-range indices proof_of returns root = tree.root(),
\* leaves_with_index = the pairs (half + i, nodes[half + i]) in the caller's
\* order, and the proof list obtained by visiting i = half-1 .. 1 and
\* appending nodes[2i+1] when only the left child is known, nodes[2i] when
\* only the right one is, nothing otherwise, a node being known iff it is a
\* requested leaf or has a known child; the list is a function of the set
\* of requested indices.
C7_ProofMatchesKnownBitReference ==
    (phase = "proved" /\ prep = "raw" /\ InRange(indices)) =>
        LET half == half_leaves_count(nodes)
            ref  == RefEmitted(half - 1)
        IN  /\ ~panicked
            /\ proof.half_leaves_count = half
            /\ proof.root = root(nodes)
            /\ proof.leaves_with_index =
                  [p \in 1..Len(indices) |->
                      <<half + indices[p], Get(nodes, half + indices[p])>>]
            /\ emitted = ref
            /\ proof.proof = [p \in 1..Len(ref) |-> Get(nodes, ref[p])]
            /\ \A other \in Requests :
                  {other[p] : p \in 1..Len(other)} = {indices[p] : p \in 1..Len(indices)}
                      => proof_of(nodes, non_empty_leaves_count, other).proof = proof.proof

C7_Witness ==
    /\ phase = "proved"
    /\ prep = "raw"
    /\ scheme = "add"
    /\ leaves = Counting(5)
    /\ indices = <<4, 0>>
    /\ proof.leaves_with_index = <<<<12, 5>>, <<8, 1>>>>
    /\ proof.proof = <<0, 2, 0, 7>>

\* C8 as stated: for additive merge and leaves 1..5 the proof list for the
\* indices {0,3} is [2,7] and the one for {0,1,2,3,4} is [0,0].
C8_ConcreteProofsAsStated ==
    (phase = "proved" /\ prep = "raw" /\ scheme = "add" /\ leaves = Counting(5)) =>
        /\ (indices = <<0, 3>> => proof.proof = <<2, 7>>)
        /\ (indices = <<0, 1, 2, 3, 4>> => proof.proof = <<0, 0>>)

\* C8 amended: for additive merge and leaves 1..5 the proof list for the
\* indices {0,3} is [3,2,5] and the one for {0,1,2,3,4} is [0,0].
C8_ConcreteProofs ==
    (phase = "proved" /\ prep = "raw" /\ scheme = "add" /\ leaves = Counting(5)) =>
        /\ (indices = <<0, 3>> => proof.proof = <<3, 2, 5>>)
        /\ (indices = <<0, 1, 2, 3, 4>> => proof.proof = <<0, 0>>)

C8_Witness ==
    /\ phase = "proved"
    /\ prep = "raw"
    /\ scheme = "add"
    /\ leaves = Counting(5)
    /\ indices = <<0, 3>>
    /\ emitted = <<10, 9, 3>>
    /\ proof.proof = <<3, 2, 5>>

\* C9: for merge(l, r) = 2l + r and leaves 1..5, verify of a proof_of
\* result whose leaves_with_index is in ascending index order (two or more
\* distinct in-range indices) is false.
C9_AscendingOrderRejected ==
    (/\ phase = "verified"
     /\ prep = "raw"
     /\ scheme = "order"
     /\ leaves = Counting(5)
     /\ Len(indices) >= 2
     /\ StrictlyAscending(indices)
     /\ InRange(indices)) => result = FALSE

C9_Witness ==
    /\ phase = "verified"
    /\ prep = "raw"
    /\ scheme = "order"
    /\ leaves = Counting(5)
    /\ indices = <<0, 1, 2, 3, 4>>
    /\ proof.leaves_with_index = <<<<8, 1>>, <<9, 2>>, <<10, 3>>, <<11, 4>>, <<12, 5>>>>
    /\ result = FALSE

RECURSIVE Log2(_)
Log2(n) == IF n <= 1 THEN 0 ELSE 1 + Log2(n \div 2)

Sibling(e) == IF e % 2 = 0 THEN e + 1 ELSE e - 1

\* C10: for k distinct in-range indices the proof list has at most
\* log2(half) * k entries, every entry is the node that is not known beside
\* a known sibling, and no tree node is emitted twice.
C10_ProofIsMinimal ==
    (phase = "proved" /\ prep = "raw" /\ Distinct(indices) /\ InRange(indices)) =>
        LET half == half_leaves_count(nodes)
        IN  /\ half >= 1
            /\ Len(proof.proof) <= Log2(half) * Len(indices)
            /\ Len(emitted) = Len(proof.proof)
            /\ Distinct(emitted)
            /\ \A p \in 1..Len(emitted) :
                  /\ emitted[p] \in 2..2 * half - 1
                  /\ ~RefKnown(emitted[p])
                  /\ RefKnown(Sibling(emitted[p]))
                  /\ proof.proof[p] = Get(nodes, emitted[p])

C10_Witness ==
    /\ phase = "proved"
    /\ prep = "raw"
    /\ leaves = Counting(5)
    /\ indices = <<0, 2, 4>>
    /\ emitted = <<13, 11, 9, 7>>
    /\ Len(proof.proof) = 4

\* ------------------------------------------- verify on arbitrary Proofs
\* the elements verify_step indexes in state st, in the order of lib.rs
\* 226-259: nodes_with_indices[n_i] always, the next queue entry only after
\* `n_i != nodes_with_indices.len()`, proof[p_i] only after
\* `p_i == proof.len()` was false
Read(v, at) == [vec |-> v, at |-> at]

\* the reads with the next queue entry and proof[p_i] taken before the
\* length checks
verify_reads_unchecked(prf, st) ==
    LET i == Get(st.q, st.n_i)[1]
    IN  IF i = 1 THEN {Read("queue", st.n_i)}
        ELSE IF i % 2 = 0 THEN {Read("queue", st.n_i), Read("proof", st.p_i)}
        ELSE {Read("queue", st.n_i), Read("queue", st.n_i + 1)}

verify_reads(prf, st) ==
    LET q     == st.q
        i     == Get(q, st.n_i)[1]
        n_i   == st.n_i + 1
        first == {Read("queue", st.n_i)}
        sibling_from_proof ==
            IF st.p_i = Len(prf.proof) THEN {} ELSE {Read("proof", st.p_i)}
    IN  IF i = 1 THEN first
        ELSE IF i % 2 = 0 THEN first \cup sibling_from_proof
        ELSE IF n_i # Len(q)
             THEN first \cup {Read("queue", n_i)}
                    \cup (IF Get(q, n_i)[1] = i - 1 THEN {} ELSE sibling_from_proof)
             ELSE first \cup sibling_from_proof

\* a read that Rust's bounds check lets through
read_in_bounds(prf, st, r) ==
    IF r.vec = "queue" THEN InBounds(st.q, r.at) ELSE InBounds(prf.proof, r.at)

ForgedDigests == 0..MaxLeaf

\* every Proof value a caller can hand to verify, within the bounds
ForgedProofs ==
    [half_leaves_count : {0},
     root : ForgedDigests,
     leaves_with_index : SeqsUpTo((0..MaxForgedIndex) \X ForgedDigests, MaxForgedLeaves),
     proof : SeqsUpTo(ForgedDigests, MaxForgedProof)]

\* verify is an associated function: it sees the Proof and nothing of a
\* tree.  Which branch it takes and what it reads depend on the indices and
\* the lengths only, so one merge (the order-sensitive one) is followed.
InitForged ==
    /\ scheme = "order"
    /\ leaves = <<>>
    /\ nodes = new(scheme, leaves)
    /\ non_empty_leaves_count = 0
    /\ indices = <<>>
    /\ proof \in ForgedProofs
    /\ emitted = <<>>
    /\ prep = "forged"
    /\ panicked = FALSE
    /\ phase = "forged"
    /\ result = FALSE
    /\ vst = VerifyIdle

\* verify up to the while loop: the is_empty() return, p_i = 0, n_i = 0
VerifyEnter ==
    /\ phase = "forged"
    /\ IF proof.leaves_with_index = <<>>
       THEN /\ phase' = "verified"
            /\ result' = FALSE
            /\ UNCHANGED vst
       ELSE /\ phase' = "verifying"
            /\ vst' = VerifyStart(proof)
            /\ UNCHANGED result
    /\ UNCHANGED <<scheme, leaves, nodes, non_empty_leaves_count, indices,
                   proof, emitted, prep, panicked>>

\* one pass through the body of the while loop; an index outside its
\* vector panics
VerifyIterate ==
    /\ phase = "verifying"
    /\ ~vst.done
    /\ vst.n_i < Len(vst.q)
    /\ IF \A r \in verify_reads(proof, vst) : read_in_bounds(proof, vst, r)
       THEN /\ vst' = verify_step(scheme, proof, vst)
            /\ UNCHANGED <<panicked, phase>>
       ELSE /\ panicked' = TRUE
            /\ phase' = "panicked"
            /\ UNCHANGED vst
    /\ UNCHANGED <<scheme, leaves, nodes, non_empty_leaves_count, indices,
                   proof, emitted, prep, result>>

\* a `return` inside the loop, or the `false` after it
VerifyReturn ==
    /\ phase = "verifying"
    /\ vst.done \/ vst.n_i >= Len(vst.q)
    /\ phase' = "verified"
    /\ result' = IF vst.done THEN vst.ret ELSE FALSE
    /\ UNCHANGED <<scheme, leaves, nodes, non_empty_leaves_count, indices,
                   proof, emitted, prep, panicked, vst>>

NextForged == VerifyEnter \/ VerifyIterate \/ VerifyReturn

\* verify is a synchronous call: once entered it runs until it returns
SpecForged == InitForged /\ [][NextForged]_vars /\ WF_vars(NextForged)

\* the entry verify is about to read needs its sibling from the proof list
NeedsProofSibling(st) ==
    LET i == Get(st.q, st.n_i)[1]
    IN  /\ i # 1
        /\ \/ i % 2 = 0
           \/ st.n_i + 1 = Len(st.q)
           \/ Get(st.q, st.n_i + 1)[1] # i - 1

C11_Safe ==
    /\ ~panicked
    /\ phase # "panicked"
    /\ phase = "verifying" =>
          /\ vst.p_i <= Len(proof.proof)
          /\ vst.n_i <= Len(vst.q)
          /\ (~vst.done /\ vst.n_i < Len(vst.q)) =>
                /\ \A r \in verify_reads(proof, vst) : read_in_bounds(proof, vst, r)
                /\ (NeedsProofSibling(vst) /\ vst.p_i = Len(proof.proof)) =>
                      /\ verify_step(scheme, proof, vst).done
                      /\ verify_step(scheme, proof, vst).ret = FALSE
    /\ phase = "verified" =>
          /\ result \in BOOLEAN
          /\ proof.leaves_with_index = <<>> => (result = FALSE /\ vst = VerifyIdle)
          /\ (vst.done /\ Get(vst.q, vst.n_i - 1)[1] # 1) =>
                (result = FALSE /\ vst.p_i = Len(proof.proof))
          /\ (proof.leaves_with_index # <<>> /\ ~vst.done) =>
                (result = FALSE /\ vst.n_i = Len(vst.q))

\* C11: on every Proof value (any root, leaves_with_index empty, unsorted,
\* repeating, holding index 0 or internal nodes, any proof list) verify
\* ends with true or false, reads no proof[p] with p >= proof.len() and no
\* queue entry at or past the queue's length, returns false at once on an
\* empty leaves_with_index, and returns false when a sibling is needed from
\* the proof list and the cursor is at its end.
C11_VerifyIsTotal == []C11_Safe /\ <>(phase = "verified")

C11_Witness ==
    /\ phase = "verified"
    /\ proof.leaves_with_index = <<<<0, 1>>, <<3, 1>>>>
    /\ proof.proof = <<1>>
    /\ vst.q[3][1] = 0
    /\ vst.p_i = 1
    /\ vst.n_i = 2
    /\ vst.done
    /\ result = FALSE

\* ------------------------------------ proof lists under a collision-free merge
\* digests the holder of a Proof can write into it: every node of the
\* tree and the hash of a leaf that is in no tree
TamperDigests ==
    {Get(nodes, i) : i \in 0..Len(nodes) - 1} \cup {hash(scheme, MaxLeaves + 1)}

Without(s, p) == SubSeq(s, 1, p - 1) \o SubSeq(s, p + 1, Len(s))

\* lists put in the place of the generated proof list g: one entry
\* altered, one entry removed, two entries exchanged, one entry appended,
\* or a short list written from scratch
TamperedLists(g) ==
    ({[g EXCEPT ![p] = x] : p \in 1..Len(g), x \in TamperDigests}
        \cup {Without(g, p) : p \in 1..Len(g)}
        \cup {[g EXCEPT ![p] = g[q], ![q] = g[p]] : p, q \in 1..Len(g)}
        \cup {Append(g, x) : x \in TamperDigests}
        \cup SeqsUpTo(TamperDigests, MaxTamperLen)) \ {g}

\* the holder of a sorted Proof replaces its proof list
ReplaceProofList(t) ==
    /\ phase = "proved"
    /\ prep = "sorted"
    /\ proof' = [proof EXCEPT !.proof = t]
    /\ prep' = "tampered"
    /\ UNCHANGED <<scheme, leaves, nodes, non_empty_leaves_count, indices,
                   emitted, panicked, phase, result, vst>>

InitBinding ==
    /\ scheme = "pair"
    /\ leaves \in LeafLists
    /\ nodes = new(scheme, leaves)
    /\ non_empty_leaves_count = Len(leaves)
    /\ indices = <<>>
    /\ proof = DefaultProof
    /\ emitted = <<>>
    /\ prep = "none"
    /\ panicked = FALSE
    /\ phase = "built"
    /\ result = FALSE
    /\ vst = VerifyIdle

NextBinding ==
    \/ \E idx \in Requests : ProofOf(idx)
    \/ Sort
    \/ \E t \in TamperedLists(proof.proof) : ReplaceProofList(t)
    \/ Verify

SpecBinding == InitBinding /\ [][NextBinding]_vars

\* the proof list proof_of generated for the current request
GeneratedList == [p \in 1..Len(emitted) |-> Get(nodes, emitted[p])]

IsPrefix(a, b) == Len(a) <= Len(b) /\ SubSeq(b, 1, Len(a)) = a

\* a replaced proof list on a sorted proof for distinct in-range indices,
\* verified under the collision-free merge
TamperedAndVerified ==
    /\ phase = "verified"
    /\ prep = "tampered"
    /\ scheme = "pair"
    /\ DistinctInRange
    /\ proof.proof # GeneratedList

\* C12 as stated: under a collision-free merge, a sorted proof_of result
\* whose proof list was replaced by any list different from the generated
\* one is rejected by verify.
C12_AnyOtherListRejected == TamperedAndVerified => result = FALSE

\* C12 for the replacements that change or drop a generated entry (the
\* list does not begin with the generated one): rejected by verify.  Also
\* violated: with leaves [0,0,0] and indices {0,2} the generated list
\* [nodes[7], nodes[5]] with its two entries exchanged rebuilds nodes[3] at
\* index 2 and nodes[2] at index 3, and merge_pair, which takes the right
\* entry first, returns merge(nodes[2], nodes[3]) = root.
C12_ChangedListRejected ==
    (TamperedAndVerified /\ ~IsPrefix(GeneratedList, proof.proof)) => result = FALSE

====
